---- MODULE Spec2Model ----
(***************************************************************************)
(* A model of the leaderboard service of app.py: the validator             *)
(* (validate_output), the metrics extractor (extract_times, parse_output), *)
(* the submit handler with its upsert, and the leaderboard read endpoint.  *)
(*                                                                         *)
(* Encoding of texts.  A text is a sequence of tokens.  A token is either  *)
(* one character ("a", "1", " ", "\n", ...) or one of the literal strings  *)
(* the regular expressions of app.py look for (the two submission markers, *)
(* the section markers, "LEADERBOARD_NAME:", "TIMESTAMP:",                 *)
(* "Simulation Time", "seconds").  The text a token sequence stands for is *)
(* the concatenation of its tokens.  No literal occurs in a concatenation  *)
(* of other tokens (each literal holds a letter that no one-character      *)
(* token and no other literal supplies in that place), so a literal occurs *)
(* in the text exactly where its token occurs in the sequence.             *)
(*                                                                         *)
(* Encoding of floats.  A float is an exact rational [n, d] in lowest      *)
(* terms with d > 0.  Rounding, infinities and NaN are outside the model   *)
(* (the literals drawn here are far from the range where they arise).      *)
(***************************************************************************)
EXTENDS Integers, Sequences, FiniteSets, TLC

VARIABLES
    raw_output,  \* the text at hand: the argument of the function, the body of the last request
    vresult,     \* what validate_output returned for it
    presult,     \* what parse_output returned for it
    db,          \* the rows of table submissions
    response,    \* the answer, when the last request was a submit
    entries,     \* the list answered, when the last request was a leaderboard read
    clock,       \* the instant datetime.now() reads
    pc,          \* the step taken last
    latest       \* history: per name, the last submission that validated with it

vars == <<raw_output, vresult, presult, db, response, entries, clock, pc, latest>>

---------------------------------------------------------------------------
(* Tokens *)

HEADER == "===== CS5220 HW3 LEADERBOARD SUBMISSION ====="
FOOTER == "===== END CS5220 HW3 LEADERBOARD SUBMISSION ====="

NAME_KEY == "LEADERBOARD_NAME:"
TIMESTAMP_KEY == "TIMESTAMP:"
SERIAL_OPEN == "--- SERIAL ---"
SERIAL_CLOSE == "--- END SERIAL ---"
SCALE_OPEN == "--- SCALE_2M ---"
SCALE_CLOSE == "--- END SCALE_2M ---"
SIM_TIME == "Simulation Time"
SECONDS == "seconds"
NL == "\n"
SP == " "

\* \s of the regular expressions, among the tokens.
Whitespace == {SP, NL, "\t"}

\* \d of the regular expressions, among the tokens.
Digits == {"0", "1", "2", "3", "4", "5", "6", "7", "8", "9"}

\* The character class [\d.eE+-] of the timing pattern.
NumChars == Digits \cup {".", "e", "E", "+", "-"}

\* The tokens that hold whitespace inside: a run of non-whitespace characters
\* that enters one of them ends inside it.
HoldsSpace == {HEADER, FOOTER, SERIAL_OPEN, SERIAL_CLOSE, SCALE_OPEN, SCALE_CLOSE, SIM_TIME}

Chars(word) ==
    CASE word = "=====" -> <<"=", "=", "=", "=", "=">>
      [] word = "---" -> <<"-", "-", "-">>
      [] word = "Simulation" -> <<"S", "i", "m", "u", "l", "a", "t", "i", "o", "n">>
      [] word = SECONDS -> <<"s", "e", "c", "o", "n", "d", "s">>
      [] word = TIMESTAMP_KEY -> <<"T", "I", "M", "E", "S", "T", "A", "M", "P", ":">>
      [] word = NAME_KEY -> <<"L", "E", "A", "D", "E", "R", "B", "O", "A", "R", "D",
                              "_", "N", "A", "M", "E", ":">>

\* The characters of a token up to its first whitespace character.
NonSpacePrefix(tok) ==
    CASE tok \in Whitespace -> <<>>
      [] tok \in {HEADER, FOOTER} -> Chars("=====")
      [] tok \in {SERIAL_OPEN, SERIAL_CLOSE, SCALE_OPEN, SCALE_CLOSE} -> Chars("---")
      [] tok = SIM_TIME -> Chars("Simulation")
      [] tok \in {SECONDS, TIMESTAMP_KEY, NAME_KEY} -> Chars(tok)
      [] OTHER -> <<tok>>

---------------------------------------------------------------------------
(* Regular-expression primitives over token sequences *)

\* The first position >= i of s that holds no whitespace (Len(s)+1 if none): \s*
RECURSIVE SkipSpace(_, _)
SkipSpace(s, i) ==
    IF i <= Len(s) /\ s[i] \in Whitespace THEN SkipSpace(s, i + 1) ELSE i

\* The first position >= i of s that holds no character of the class: [class]*
RECURSIVE SkipClass(_, _, _)
SkipClass(s, i, class) ==
    IF i <= Len(s) /\ s[i] \in class THEN SkipClass(s, i + 1, class) ELSE i

\* The characters (\S+) matches at position i of s: the longest run of
\* non-whitespace characters that starts there (empty: no match).
RECURSIVE NonSpaceRun(_, _)
NonSpaceRun(s, i) ==
    IF i > Len(s) \/ s[i] \in Whitespace THEN <<>>
    ELSE IF s[i] \in HoldsSpace THEN NonSpacePrefix(s[i])
    ELSE NonSpacePrefix(s[i]) \o NonSpaceRun(s, i + 1)

\* A search that answers the rightmost match instead of the leftmost.
RECURSIVE SearchKeyTokenLast(_, _, _)
SearchKeyTokenLast(s, key, i) ==
    IF i > Len(s) THEN [found |-> FALSE, group |-> <<>>]
    ELSE IF SearchKeyTokenLast(s, key, i + 1).found THEN SearchKeyTokenLast(s, key, i + 1)
    ELSE IF s[i] = key /\ NonSpaceRun(s, SkipSpace(s, i + 1)) # <<>>
         THEN [found |-> TRUE, group |-> NonSpaceRun(s, SkipSpace(s, i + 1))]
         ELSE [found |-> FALSE, group |-> <<>>]

\* re.search(key \s*(\S+), s): the group of the leftmost match, if any.
RECURSIVE SearchKeyToken(_, _, _)
SearchKeyToken(s, key, i) ==
    IF i > Len(s) THEN [found |-> FALSE, group |-> <<>>]
    ELSE IF s[i] = key /\ NonSpaceRun(s, SkipSpace(s, i + 1)) # <<>>
         THEN [found |-> TRUE, group |-> NonSpaceRun(s, SkipSpace(s, i + 1))]
         ELSE SearchKeyToken(s, key, i + 1)

\* The first position >= i of s that holds tok (0 if none).
RECURSIVE IndexFrom(_, _, _)
IndexFrom(s, tok, i) ==
    IF i > Len(s) THEN 0
    ELSE IF s[i] = tok THEN i ELSE IndexFrom(s, tok, i + 1)

Contains(s, tok) == IndexFrom(s, tok, 1) # 0

---------------------------------------------------------------------------
(* validate_output *)

MISSING_HEADER == "Missing header marker"
MISSING_FOOTER == "Missing footer marker"
MISSING_NAME == "Missing LEADERBOARD_NAME"

\* The match of LEADERBOARD_NAME:\s*(\S+) in the text.
name_match(text) == SearchKeyToken(text, NAME_KEY, 1)

\* A validator that looks for the footer before the header.
validate_output_footer_first(text) ==
    IF ~Contains(text, FOOTER) THEN [valid |-> FALSE, error |-> MISSING_FOOTER, name |-> <<>>]
    ELSE IF ~Contains(text, HEADER) THEN [valid |-> FALSE, error |-> MISSING_HEADER, name |-> <<>>]
    ELSE IF ~name_match(text).found THEN [valid |-> FALSE, error |-> MISSING_NAME, name |-> <<>>]
    ELSE [valid |-> TRUE, error |-> "", name |-> name_match(text).group]

\* (valid, result): result is the name (a character sequence) when valid,
\* and the reason otherwise.
validate_output(text) ==
    IF ~Contains(text, HEADER) THEN [valid |-> FALSE, error |-> MISSING_HEADER, name |-> <<>>]
    ELSE IF ~Contains(text, FOOTER) THEN [valid |-> FALSE, error |-> MISSING_FOOTER, name |-> <<>>]
    ELSE IF ~name_match(text).found THEN [valid |-> FALSE, error |-> MISSING_NAME, name |-> <<>>]
    ELSE [valid |-> TRUE, error |-> "", name |-> name_match(text).group]

---------------------------------------------------------------------------
(* Floats: exact rationals *)

RECURSIVE Gcd(_, _)
Gcd(a, b) == IF b = 0 THEN a ELSE Gcd(b, a % b)

Abs(n) == IF n < 0 THEN -n ELSE n

\* n/d (d # 0) in lowest terms with a positive denominator.
Rat(n, d) ==
    LET g == Gcd(Abs(n), Abs(d))
        sgn == IF d < 0 THEN -1 ELSE 1
    IN  [n |-> sgn * (n \div g), d |-> sgn * (d \div g)]

RMul(a, b) == Rat(a.n * b.n, a.d * b.d)
RDiv(a, b) == Rat(a.n * b.d, a.d * b.n)
RAdd(a, b) == Rat(a.n * b.d + b.n * a.d, a.d * b.d)
RLess(a, b) == a.n * b.d < b.n * a.d
Zero == Rat(0, 1)

RECURSIVE Pow10(_)
Pow10(k) == IF k = 0 THEN 1 ELSE 10 * Pow10(k - 1)

DigitVal(c) ==
    CASE c = "0" -> 0 [] c = "1" -> 1 [] c = "2" -> 2 [] c = "3" -> 3 [] c = "4" -> 4
      [] c = "5" -> 5 [] c = "6" -> 6 [] c = "7" -> 7 [] c = "8" -> 8 [] c = "9" -> 9

RECURSIVE DigitsVal(_)
DigitsVal(ds) ==
    IF ds = <<>> THEN 0
    ELSE 10 * DigitsVal(SubSeq(ds, 1, Len(ds) - 1)) + DigitVal(ds[Len(ds)])

AllDigits(ds) == \A i \in 1..Len(ds) : ds[i] \in Digits

\* The first position of s that holds e or E (0 if none).
RECURSIVE ExponentMark(_, _)
ExponentMark(s, i) ==
    IF i > Len(s) THEN 0
    ELSE IF s[i] \in {"e", "E"} THEN i ELSE ExponentMark(s, i + 1)

\* float(m) of a string m of characters of NumChars: the value, or ValueError.
\* Python's grammar: [sign] (digits [. [digits]] | . digits) [(e|E) [sign] digits].
float(m) ==
    LET signed == m # <<>> /\ m[1] \in {"+", "-"}
        body == IF signed THEN Tail(m) ELSE m
        ePos == ExponentMark(body, 1)
        mant == IF ePos = 0 THEN body ELSE SubSeq(body, 1, ePos - 1)
        expo == IF ePos = 0 THEN <<>> ELSE SubSeq(body, ePos + 1, Len(body))
        dot == IndexFrom(mant, ".", 1)
        intPart == IF dot = 0 THEN mant ELSE SubSeq(mant, 1, dot - 1)
        fracPart == IF dot = 0 THEN <<>> ELSE SubSeq(mant, dot + 1, Len(mant))
        expSigned == expo # <<>> /\ expo[1] \in {"+", "-"}
        expDigits == IF expSigned THEN Tail(expo) ELSE expo
        ok == /\ AllDigits(intPart) /\ AllDigits(fracPart)
              /\ Len(intPart) + Len(fracPart) >= 1
              /\ ePos # 0 => (expDigits # <<>> /\ AllDigits(expDigits))
        sgn == IF signed /\ m[1] = "-" THEN -1 ELSE 1
        mantissa == sgn * DigitsVal(intPart \o fracPart)
        exponent == (IF expSigned /\ expo[1] = "-" THEN -1 ELSE 1) * DigitsVal(expDigits)
                    - Len(fracPart)
    IN  IF ~ok THEN [raised |-> TRUE, value |-> Zero]
        ELSE [raised |-> FALSE,
              value |-> IF exponent >= 0 THEN Rat(mantissa * Pow10(exponent), 1)
                        ELSE Rat(mantissa, Pow10(-exponent))]

---------------------------------------------------------------------------
(* extract_times *)

\* The match of Simulation Time\s*=\s*([\d.eE+-]+)\s*seconds that starts at
\* position i of s.  No character of the class is whitespace or starts
\* "seconds", so the group is the whole run of class characters.
TimeMatchAt(s, i) ==
    LET eq == SkipSpace(s, i + 1)
        from == SkipSpace(s, eq + 1)
        to == SkipClass(s, from, NumChars)
        unit == SkipSpace(s, to)
    IN  IF /\ i <= Len(s) /\ s[i] = SIM_TIME
           /\ eq <= Len(s) /\ s[eq] = "="
           /\ to > from
           /\ unit <= Len(s) /\ s[unit] = SECONDS
        THEN [found |-> TRUE, group |-> SubSeq(s, from, to - 1), end |-> unit + 1]
        ELSE [found |-> FALSE, group |-> <<>>, end |-> i + 1]

\* re.findall of the timing pattern: the groups of the non-overlapping
\* matches, left to right.
RECURSIVE FindAllTimes(_, _)
FindAllTimes(s, i) ==
    IF i > Len(s) THEN <<>>
    ELSE LET m == TimeMatchAt(s, i)
         IN  IF m.found THEN <<m.group>> \o FindAllTimes(s, m.end)
             ELSE FindAllTimes(s, i + 1)

\* [float(m) for m in re.findall(...)]: the values, or the ValueError of the
\* first group that float rejects.
Floats(groups) ==
    IF \E i \in 1..Len(groups) : float(groups[i]).raised
    THEN [raised |-> TRUE, times |-> <<>>]
    ELSE [raised |-> FALSE, times |-> [i \in 1..Len(groups) |-> float(groups[i]).value]]

extract_times(section_text) == Floats(FindAllTimes(section_text, 1))

---------------------------------------------------------------------------
(* parse_output *)

\* re.search(open \n(.*?) close, s, re.DOTALL): the group of the leftmost
\* match: the opening marker must be followed at once by a newline, and the
\* group runs to the first closing marker after it.
RECURSIVE SearchSection(_, _, _, _)
SearchSection(s, open, close, i) ==
    IF i + 1 > Len(s) THEN [found |-> FALSE, group |-> <<>>]
    ELSE IF s[i] = open /\ s[i + 1] = NL /\ IndexFrom(s, close, i + 2) # 0
         THEN [found |-> TRUE, group |-> SubSeq(s, i + 2, IndexFrom(s, close, i + 2) - 1)]
         ELSE SearchSection(s, open, close, i + 1)

serial_match(text) == SearchSection(text, SERIAL_OPEN, SERIAL_CLOSE, 1)
scale_2m_match(text) == SearchSection(text, SCALE_OPEN, SCALE_CLOSE, 1)

\* len(times) >= 3
MinScaleTimes == 3

EnoughScaleTimes(times) == Len(times) >= MinScaleTimes

\* A guard that lets a serial time of 0 through.
NonNegativeSerial(rs) == rs.n >= 0

\* metrics["RS1e5"] > 0
PositiveSerial(rs) == rs.n > 0

\* A section that forgets to record the third time.
ScaleTimeKeysWithout256 == {"T_2M_64", "T_2M_128"}

\* The keys of the three times of the SCALE_2M section.
ScaleTimeKeys == {"T_2M_64", "T_2M_128", "T_2M_256"}

\* PE1 * 0.4 + PE2 * 0.4 + (1.0 / RS1e5) * 0.2
OverallScore(pe1, pe2, rs1e5) ==
    RAdd(RAdd(RMul(pe1, Rat(2, 5)), RMul(pe2, Rat(2, 5))),
         RMul(RDiv(Rat(1, 1), rs1e5), Rat(1, 5)))

\* The keys parse_output can set, in the order it sets them.
MetricKeys == <<"RS1e5", "T_2M_64", "T_2M_128", "T_2M_256", "PE1", "PE2", "overall">>

NoMetrics == [k \in {} |-> Zero]

NoTimes == [raised |-> FALSE, times |-> <<>>]

\* The times of the section a search found, none when it found no section.
SectionTimes(match) == IF match.found THEN extract_times(match.group) ELSE NoTimes

\* The metrics parse_output builds from the times of the SERIAL section (st)
\* and of the SCALE_2M section (ct), or the ValueError extract_times raised
\* for one of them.
BuildMetrics(st, ct) ==
    LET hasRS == Len(st.times) >= 1
        hasT == EnoughScaleTimes(ct.times)
        t64 == ct.times[1]
        t128 == ct.times[2]
        t256 == ct.times[3]
        hasPE1 == hasT /\ t128.n > 0
        hasPE2 == hasT /\ t256.n > 0
        pe1 == RDiv(t64, RMul(Rat(2, 1), t128))
        pe2 == RDiv(t128, RMul(Rat(2, 1), t256))
        hasOverall == hasPE1 /\ hasPE2 /\ hasRS /\ PositiveSerial(st.times[1])
        keys == (IF hasRS THEN {"RS1e5"} ELSE {})
                \cup (IF hasT THEN ScaleTimeKeys ELSE {})
                \cup (IF hasPE1 THEN {"PE1"} ELSE {})
                \cup (IF hasPE2 THEN {"PE2"} ELSE {})
                \cup (IF hasOverall THEN {"overall"} ELSE {})
    IN  IF st.raised \/ ct.raised THEN [raised |-> TRUE, metrics |-> NoMetrics]
        ELSE [raised |-> FALSE,
              metrics |-> [k \in keys |->
                  CASE k = "RS1e5" -> st.times[1]
                    [] k = "T_2M_64" -> t64
                    [] k = "T_2M_128" -> t128
                    [] k = "T_2M_256" -> t256
                    [] k = "PE1" -> pe1
                    [] k = "PE2" -> pe2
                    [] k = "overall" -> OverallScore(pe1, pe2, st.times[1])]]

\* parse_output(raw_output): the metrics mapping, or the ValueError.
parse_output(text) ==
    BuildMetrics(SectionTimes(serial_match(text)), SectionTimes(scale_2m_match(text)))

---------------------------------------------------------------------------
(* The store and the two endpoints *)

\* json.dumps(metrics): the key/value pairs in the order parse_output set them.
RECURSIVE DumpFrom(_, _)
DumpFrom(metrics, i) ==
    IF i > Len(MetricKeys) THEN <<>>
    ELSE (IF MetricKeys[i] \in DOMAIN metrics
          THEN <<[key |-> MetricKeys[i], value |-> metrics[MetricKeys[i]]]>>
          ELSE <<>>) \o DumpFrom(metrics, i + 1)

json_dumps(metrics) == DumpFrom(metrics, 1)

\* json.loads(text): the mapping a stored metrics column holds.
json_loads(pairs) ==
    [k \in {pairs[i].key : i \in 1..Len(pairs)} |->
        (CHOOSE p \in {pairs[i] : i \in 1..Len(pairs)} : p.key = k).value]

DigitChar(k) == CASE k = 0 -> "0" [] k = 1 -> "1" [] k = 2 -> "2" [] k = 3 -> "3" [] k = 4 -> "4"
                  [] k = 5 -> "5" [] k = 6 -> "6" [] k = 7 -> "7" [] k = 8 -> "8" [] k = 9 -> "9"

\* datetime.now(timezone.utc).isoformat() at instant k of the clock: the date
\* and the instant within it.
isoformat(k) == <<"2", "0", "2", "6", "T", DigitChar(k)>>

\* The match of TIMESTAMP:\s*(\S+) in the text.
timestamp_match(text) == SearchKeyToken(text, TIMESTAMP_KEY, 1)

\* The timestamp submit stores for a text received at instant now.
SubmitTimestamp(text, now) ==
    IF timestamp_match(text).found THEN timestamp_match(text).group ELSE isoformat(now)

\* INSERT ... ON CONFLICT(name) DO UPDATE SET timestamp, raw_output, metrics.
Upsert(rows, row) == {r \in rows : r.name # row.name} \cup {row}

NoResponse == [status |-> 0, error |-> "", name |-> <<>>, timestamp |-> <<>>]

\* A handler that stores the text whatever validate_output answered.
StoreUnvalidated(rows, text, v, timestamp, parsed) ==
    [db |-> Upsert(rows, [name |-> v.name, timestamp |-> timestamp, raw_output |-> text,
                          metrics |-> json_dumps(parsed.metrics)]),
     response |-> IF v.valid
                  THEN [status |-> 200, error |-> "", name |-> v.name, timestamp |-> timestamp]
                  ELSE [status |-> 400, error |-> v.error, name |-> <<>>, timestamp |-> <<>>]]

\* The store and the response submit leaves, given what validate_output (v)
\* and parse_output (parsed) returned and the timestamp.  A ValueError of
\* parse_output leaves the handler before the INSERT and is answered 500.
Store(rows, text, v, timestamp, parsed) ==
    IF ~v.valid
    THEN [db |-> rows,
          response |-> [status |-> 400, error |-> v.error, name |-> <<>>, timestamp |-> <<>>]]
    ELSE IF parsed.raised
    THEN [db |-> rows,
          response |-> [status |-> 500, error |-> "ValueError", name |-> <<>>,
                        timestamp |-> <<>>]]
    ELSE [db |-> Upsert(rows, [name |-> v.name, timestamp |-> timestamp, raw_output |-> text,
                               metrics |-> json_dumps(parsed.metrics)]),
          response |-> [status |-> 200, error |-> "", name |-> v.name,
                        timestamp |-> timestamp]]

\* submit() on the request body text at instant now, the store holding rows.
submit(rows, text, now) ==
    Store(rows, text, validate_output(text), SubmitTimestamp(text, now), parse_output(text))

\* The byte of a character (SQLite compares TEXT byte by byte).
Code(c) ==
    CASE c = "+" -> 43 [] c = "-" -> 45 [] c = "." -> 46 [] c \in Digits -> 48 + DigitVal(c)
      [] c = ":" -> 58 [] c = "=" -> 61
      [] c = "A" -> 65 [] c = "B" -> 66 [] c = "D" -> 68 [] c = "E" -> 69 [] c = "I" -> 73
      [] c = "L" -> 76 [] c = "M" -> 77 [] c = "N" -> 78 [] c = "O" -> 79 [] c = "P" -> 80
      [] c = "R" -> 82 [] c = "S" -> 83 [] c = "T" -> 84 [] c = "_" -> 95
      [] c = "a" -> 97 [] c = "b" -> 98 [] c = "c" -> 99 [] c = "d" -> 100 [] c = "e" -> 101
      [] c = "i" -> 105 [] c = "l" -> 108 [] c = "m" -> 109 [] c = "n" -> 110
      [] c = "o" -> 111 [] c = "s" -> 115 [] c = "t" -> 116 [] c = "u" -> 117

\* a < b for two strings, byte by byte.
RECURSIVE TextLess(_, _)
TextLess(a, b) ==
    IF b = <<>> THEN FALSE
    ELSE IF a = <<>> THEN TRUE
    ELSE IF Code(a[1]) # Code(b[1]) THEN Code(a[1]) < Code(b[1])
    ELSE TextLess(Tail(a), Tail(b))

\* The results SELECT ... ORDER BY timestamp DESC may return: every listing of
\* the rows whose timestamps never increase (rows of equal timestamp come in
\* an order SQL leaves open).
SelectByTimestampDesc(rows) ==
    {q \in [1..Cardinality(rows) -> rows] :
        /\ \A i, j \in DOMAIN q : i # j => q[i] # q[j]
        /\ \A i, j \in DOMAIN q : i < j => ~TextLess(q[i].timestamp, q[j].timestamp)}

\* e["metrics"].get("overall", 0)
SortKey(e) == IF "overall" \in DOMAIN e.metrics THEN e.metrics["overall"] ELSE Zero

\* The position of the element list.sort(key=SortKey, reverse=True) puts
\* first: the first one that no element exceeds (the sort is stable, also
\* when reversed).
FirstMax(es) ==
    CHOOSE i \in DOMAIN es :
        /\ \A j \in DOMAIN es : ~RLess(SortKey(es[i]), SortKey(es[j]))
        /\ \A j \in 1..(i - 1) : RLess(SortKey(es[j]), SortKey(es[i]))

Remove(es, i) == SubSeq(es, 1, i - 1) \o SubSeq(es, i + 1, Len(es))

RECURSIVE SortByOverallDesc(_)
SortByOverallDesc(es) ==
    IF es = <<>> THEN <<>>
    ELSE <<es[FirstMax(es)]>> \o SortByOverallDesc(Remove(es, FirstMax(es)))

\* leaderboard_data() on the rows the SELECT returned: the list it answers.
leaderboard_data(selected) ==
    SortByOverallDesc([i \in DOMAIN selected |->
        [name |-> selected[i].name, timestamp |-> selected[i].timestamp,
         metrics |-> json_loads(selected[i].metrics)]])

---------------------------------------------------------------------------
(* Inputs *)

MaxChunks == 4
MaxSerialLines == 2
MaxScaleLines == 3
MaxClock == 2

SeqsUpTo(S, n) == UNION {[1..k -> S] : k \in 0..n}

RECURSIVE Flatten(_)
Flatten(chunks) == IF chunks = <<>> THEN <<>> ELSE Head(chunks) \o Flatten(Tail(chunks))

\* The pieces the texts given to validate_output are made of: the markers,
\* name fields in the documented form, a bare key, a name character, a
\* blank and a line break.
ValidateChunks ==
    {<<HEADER>>, <<FOOTER>>, <<NAME_KEY, SP, "a">>, <<NAME_KEY, SP, "B">>, <<NAME_KEY>>,
     <<"a">>, <<SP>>, <<NL>>}

ValidateTexts == {Flatten(cs) : cs \in SeqsUpTo(ValidateChunks, MaxChunks)}

TimingLine(literal) == <<SIM_TIME, SP, "=", SP>> \o literal \o <<SP, SECONDS, NL>>

\* The lines of a SERIAL section: timings 1, 2 and 0, a timing whose literal
\* is no float, and a line the timing pattern does not match.
SerialLines ==
    {TimingLine(<<"1">>), TimingLine(<<"2">>), TimingLine(<<"0">>), TimingLine(<<"e">>),
     TimingLine(<<"a">>)}

ScaleLines ==
    {TimingLine(<<"1">>), TimingLine(<<"2">>), TimingLine(<<"0">>), TimingLine(<<"a">>)}

\* No SERIAL section, or one of up to MaxSerialLines lines whose opening
\* marker is followed by a line break or by a blank.
SerialParts ==
    {<<>>} \cup
    {<<SERIAL_OPEN, sep>> \o Flatten(body) \o <<SERIAL_CLOSE, NL>> :
        sep \in {NL, SP}, body \in SeqsUpTo(SerialLines, MaxSerialLines)}

ScaleParts ==
    {<<>>} \cup
    {<<SCALE_OPEN, NL>> \o Flatten(body) \o <<SCALE_CLOSE, NL>> :
        body \in SeqsUpTo(ScaleLines, MaxScaleLines)}

ParseTexts == {s \o c : s \in SerialParts, c \in ScaleParts}

\* A report as the job script prints it.
Report(name, timestamp, serial, scale) ==
    <<HEADER, NL, NAME_KEY, SP>> \o name \o <<NL>>
    \o (IF timestamp = <<>> THEN <<>> ELSE <<TIMESTAMP_KEY, SP>> \o timestamp \o <<NL>>)
    \o (IF serial = <<>> THEN <<>>
        ELSE <<SERIAL_OPEN, NL>> \o Flatten([i \in DOMAIN serial |-> TimingLine(serial[i])])
             \o <<SERIAL_CLOSE, NL>>)
    \o (IF scale = <<>> THEN <<>>
        ELSE <<SCALE_OPEN, NL>> \o Flatten([i \in DOMAIN scale |-> TimingLine(scale[i])])
             \o <<SCALE_CLOSE, NL>>)
    \o <<FOOTER, NL>>

\* The request bodies sent to /api/submit.
Requests ==
    {Report(<<"a">>, <<"1">>, << <<"2">> >>, << <<"4">>, <<"2">>, <<"1">> >>),
     Report(<<"a">>, <<>>, <<>>, <<>>),
     Report(<<"a">>, <<"3">>, << <<"1">>, <<"1", ".", "2", ".">> >>, <<>>),
     Report(<<"B">>, <<"2">>, << <<"1">> >>, << <<"-", "8">>, <<"2">>, <<"1">> >>),
     Report(<<"B">>, <<>>, << <<"1">> >>, << <<"2">>, <<"1">> >>),
     Report(<<"c">>, <<"2">>, << <<"1">> >>, << <<"1">>, <<"1">>, <<"2">> >>),
     <<HEADER, NL, NAME_KEY, SP, "a", NL>>,
     <<NAME_KEY, SP, "a", NL, FOOTER, NL>>,
     <<HEADER, NL, NAME_KEY, SP, NL, FOOTER, NL, SP>>,
     <<HEADER, NL, FOOTER, NL, NAME_KEY, SP>>}

---------------------------------------------------------------------------
(* The state machines *)

NoValidation == [valid |-> FALSE, error |-> "", name |-> <<>>]
NoParse == [raised |-> FALSE, metrics |-> NoMetrics]
NoHistory == [n \in {} |-> 0]

Idle ==
    /\ vresult = NoValidation
    /\ presult = NoParse
    /\ db = {}
    /\ response = NoResponse
    /\ entries = <<>>
    /\ clock = 0
    /\ latest = NoHistory

\* validate_output applied to one text.
InitValidate == raw_output \in ValidateTexts /\ pc = "start" /\ Idle

Validate ==
    /\ pc = "start"
    /\ vresult' = validate_output(raw_output)
    /\ pc' = "validated"
    /\ UNCHANGED <<raw_output, presult, db, response, entries, clock, latest>>

SpecValidate == InitValidate /\ [][Validate]_vars

\* parse_output applied to one text.
InitParse == raw_output \in ParseTexts /\ pc = "start" /\ Idle

Parse ==
    /\ pc = "start"
    /\ presult' = parse_output(raw_output)
    /\ pc' = "parsed"
    /\ UNCHANGED <<raw_output, vresult, db, response, entries, clock, latest>>

SpecParse == InitParse /\ [][Parse]_vars

\* The service: the table is empty after init_db on a new database.
init_db == {}

Init == raw_output = <<>> /\ pc = "start" /\ Idle /\ db = init_db

\* Time passes between requests.
Tick ==
    /\ clock < MaxClock
    /\ clock' = clock + 1
    /\ UNCHANGED <<raw_output, vresult, presult, db, response, entries, pc, latest>>

\* The history after a submission: a text that validates is the latest of
\* its name.
Record(history, text, v, timestamp) ==
    IF v.valid
    THEN [n \in DOMAIN history \cup {v.name} |->
             IF n = v.name THEN [timestamp |-> timestamp, raw_output |-> text]
             ELSE history[n]]
    ELSE history

\* POST /api/submit with body text.
Submit(text) ==
    /\ raw_output' = text
    /\ \E done \in {submit(db, text, clock)} :
           db' = done.db /\ response' = done.response
    /\ pc' = "submit"
    /\ latest' = Record(latest, text, validate_output(text), SubmitTimestamp(text, clock))
    /\ entries' = <<>>
    /\ UNCHANGED <<vresult, presult, clock>>

\* GET /api/leaderboard.
Leaderboard ==
    /\ \E selected \in SelectByTimestampDesc(db) : entries' = leaderboard_data(selected)
    /\ pc' = "leaderboard"
    /\ raw_output' = <<>>
    /\ response' = NoResponse
    /\ UNCHANGED <<vresult, presult, db, clock, latest>>

Next == Tick \/ (\E text \in Requests : Submit(text)) \/ Leaderboard

Spec == Init /\ [][Next]_vars

---------------------------------------------------------------------------
(* The validator: C5, C6, C9 (under SpecValidate) *)

BothMarkers(text) == Contains(text, HEADER) /\ Contains(text, FOOTER)

Blank == {SP, "\t"}

\* Position i of the text starts a name field in the documented form: the
\* key, one or more blanks on the same line, then a token.
NameFieldAt(text, i) ==
    /\ text[i] = NAME_KEY
    /\ i + 1 <= Len(text) /\ text[i + 1] \in Blank
    /\ SkipClass(text, i + 1, Blank) <= Len(text)
    /\ text[SkipClass(text, i + 1, Blank)] \notin Whitespace

\* The token X of the name field at position i.
NameFieldToken(text, i) == NonSpaceRun(text, SkipClass(text, i + 1, Blank))

\* C5: a text with both markers and no line that holds LEADERBOARD_NAME:
\* followed by whitespace and a token is rejected with the missing-name
\* reason.
C5_MissingName ==
    (/\ pc = "validated"
     /\ BothMarkers(raw_output)
     /\ \A i \in 1..Len(raw_output) : ~NameFieldAt(raw_output, i))
    => (~vresult.valid /\ vresult.error = MISSING_NAME)

\* C6 as stated: for a text with both markers, every well-formed name field
\* LEADERBOARD_NAME: X of the text makes validate_output succeed with the
\* name exactly X.
C6_AnyFieldNamed ==
    (pc = "validated" /\ BothMarkers(raw_output))
    => \A i \in 1..Len(raw_output) :
           NameFieldAt(raw_output, i)
           => (vresult.valid /\ vresult.name = NameFieldToken(raw_output, i))

\* C6 amended: for a text with both markers, in any order, whose first
\* occurrence of LEADERBOARD_NAME: starts a well-formed name field
\* LEADERBOARD_NAME: X, validate_output succeeds with the name exactly X.
C6_FirstFieldNamed ==
    (/\ pc = "validated"
     /\ BothMarkers(raw_output)
     /\ Contains(raw_output, NAME_KEY)
     /\ NameFieldAt(raw_output, IndexFrom(raw_output, NAME_KEY, 1)))
    => (/\ vresult.valid
        /\ vresult.name = NameFieldToken(raw_output, IndexFrom(raw_output, NAME_KEY, 1)))

\* The footer comes first, then the name field B, then the header, and the
\* name returned is B in its own case.
C6_Witness ==
    /\ pc = "validated"
    /\ Contains(raw_output, FOOTER) /\ Contains(raw_output, NAME_KEY)
    /\ IndexFrom(raw_output, FOOTER, 1) < IndexFrom(raw_output, NAME_KEY, 1)
    /\ IndexFrom(raw_output, NAME_KEY, 1) < IndexFrom(raw_output, HEADER, 1)
    /\ NameFieldAt(raw_output, IndexFrom(raw_output, NAME_KEY, 1))
    /\ vresult.valid /\ vresult.name = <<"B">>

\* C9: a text without the opening marker is rejected with the
\* missing-header reason whatever else it holds; the missing-footer reason
\* is given only to a text with the header, and the missing-name reason only
\* to a text with both markers.
C9_HeaderFooterName ==
    pc = "validated"
    => /\ ~Contains(raw_output, HEADER)
          => (~vresult.valid /\ vresult.error = MISSING_HEADER)
       /\ vresult.error = MISSING_FOOTER
          => (~vresult.valid /\ Contains(raw_output, HEADER))
       /\ vresult.error = MISSING_NAME
          => (~vresult.valid /\ BothMarkers(raw_output))

\* A text with the footer and a name field but no header is rejected for
\* its header.
C9_Witness ==
    /\ pc = "validated"
    /\ ~Contains(raw_output, HEADER) /\ Contains(raw_output, FOOTER)
    /\ \E i \in 1..Len(raw_output) : NameFieldAt(raw_output, i)
    /\ ~vresult.valid /\ vresult.error = MISSING_HEADER

---------------------------------------------------------------------------
(* The extractor: C1, C7, C8, C10 (under SpecParse) *)

Parsed == pc = "parsed" /\ ~presult.raised

Has(key) == key \in DOMAIN presult.metrics

C7_OverallIff ==
    Parsed
    => (Has("overall")
        <=> (/\ Has("PE1") /\ Has("PE2") /\ Has("RS1e5")
             /\ RLess(Zero, presult.metrics["RS1e5"])))

\* A text with all three of PE1, PE2 and RS1e5 > 0 is given its overall score.
C7_Witness ==
    /\ Parsed
    /\ Has("PE1") /\ Has("PE2") /\ Has("RS1e5") /\ Has("overall")
    /\ RLess(Zero, presult.metrics["RS1e5"])

\* The number of timing values the SCALE_2M section of the text yields (0
\* when the text has no such section).
ScaleYield(text) ==
    IF scale_2m_match(text).found THEN Len(FindAllTimes(scale_2m_match(text).group, 1)) ELSE 0

\* C8: when the SCALE_2M section yields fewer than 3 timing values, or the
\* text has no such section, the mapping holds none of T_2M_64, T_2M_128,
\* T_2M_256, PE1, PE2 and overall; and the three T_2M keys are all there or
\* all absent.
C8_ScaleAllOrNothing ==
    Parsed
    => /\ ScaleYield(raw_output) < 3
          => DOMAIN presult.metrics
             \cap {"T_2M_64", "T_2M_128", "T_2M_256", "PE1", "PE2", "overall"} = {}
       /\ (Has("T_2M_64") /\ Has("T_2M_128") /\ Has("T_2M_256"))
          \/ (~Has("T_2M_64") /\ ~Has("T_2M_128") /\ ~Has("T_2M_256"))

\* A SCALE_2M section of exactly 2 timing values, beside a SERIAL section
\* with one, leaves RS1e5 alone in the mapping.
C8_Witness ==
    /\ Parsed
    /\ scale_2m_match(raw_output).found
    /\ ScaleYield(raw_output) = 2
    /\ DOMAIN presult.metrics = {"RS1e5"}

\* The region between the first "--- SERIAL ---" of the text and the first
\* "--- END SERIAL ---" after it (the shortest span between such a pair).
SerialRegion(text) ==
    SubSeq(text, IndexFrom(text, SERIAL_OPEN, 1) + 1,
           IndexFrom(text, SERIAL_CLOSE, IndexFrom(text, SERIAL_OPEN, 1) + 1) - 1)

HasSerialRegion(text) ==
    /\ Contains(text, SERIAL_OPEN)
    /\ IndexFrom(text, SERIAL_CLOSE, IndexFrom(text, SERIAL_OPEN, 1) + 1) # 0

\* The timing values of a region: the literals the timing pattern finds
\* that are floating-point literals, left to right.
RECURSIVE FloatLiterals(_)
FloatLiterals(groups) ==
    IF groups = <<>> THEN <<>>
    ELSE (IF float(Head(groups)).raised THEN <<>> ELSE <<float(Head(groups)).value>>)
         \o FloatLiterals(Tail(groups))

TimingValues(region) == FloatLiterals(FindAllTimes(region, 1))

\* C10: when the text holds "--- SERIAL ---" and later "--- END SERIAL ---"
\* and the region between the first such pair holds a timing value,
\* parse_output records the first timing value of the region as RS1e5,
\* whatever character follows the opening marker.
C10_FirstSerialTime ==
    (/\ pc = "parsed"
     /\ HasSerialRegion(raw_output)
     /\ TimingValues(SerialRegion(raw_output)) # <<>>)
    => (/\ ~presult.raised
        /\ Has("RS1e5")
        /\ presult.metrics["RS1e5"] = TimingValues(SerialRegion(raw_output))[1])

---------------------------------------------------------------------------
(* The store and the endpoints: C2, C3, C4 (under Spec) *)

\* C2: the store holds at most one row per name, and the row of a name
\* carries the timestamp, the raw text and the metrics of the latest
\* submission that validated with that name, all three together.
C2_LatestStored ==
    /\ \A r1, r2 \in db : r1.name = r2.name => r1 = r2
    /\ \A r \in db : r.name \in DOMAIN latest
    /\ \A n \in DOMAIN latest :
           \E r \in db :
               /\ r.name = n
               /\ r.timestamp = latest[n].timestamp
               /\ r.raw_output = latest[n].raw_output
               /\ ~parse_output(latest[n].raw_output).raised
               /\ r.metrics = json_dumps(parse_output(latest[n].raw_output).metrics)

\* C3: a submit request whose text fails validation is answered 400 with
\* the reason validate_output gave (missing header, footer or name) and
\* leaves the store as it was, whatever the store held.
C3_RejectedNotPersisted ==
    [][(pc' = "submit" /\ ~validate_output(raw_output').valid)
       => (/\ db' = db
           /\ response'.status = 400
           /\ response'.error = validate_output(raw_output').error
           /\ response'.error \in {MISSING_HEADER, MISSING_FOOTER, MISSING_NAME})]_vars

\* A text without its footer was rejected for it while the store held rows.
C3_Witness ==
    /\ pc = "submit"
    /\ ~Contains(raw_output, FOOTER)
    /\ response.status = 400 /\ response.error = MISSING_FOOTER
    /\ db # {}

HasOverall(e) == "overall" \in DOMAIN e.metrics

\* C4: the list the leaderboard read answers is in descending order of
\* overall, a missing overall counting as 0, and every entry without an
\* overall comes after every entry with one.
C4_MissingOverallLast ==
    pc = "leaderboard"
    => \A i, j \in DOMAIN entries :
           i < j => /\ ~RLess(SortKey(entries[i]), SortKey(entries[j]))
                    /\ HasOverall(entries[j]) => HasOverall(entries[i])

====
